---- MODULE Spec2Model ----
(***************************************************************************)
(* Model of src/bot.py: the session store user_sessions and the two        *)
(* handlers handle_search and handle_all_callbacks.                        *)
(*                                                                         *)
(* Strings are sequences of one-character strings; the command word        *)
(* "/search" is one token.  A callback identifier is the sequence of the   *)
(* pieces call.data.split('_') yields, so 'platform_twitter' is            *)
(* <<"platform", "twitter">>.                                              *)
(*                                                                         *)
(* Every call of the messaging transport may raise.  A handler is the set  *)
(* of its outcomes, one for each way its transport calls return or raise.  *)
(*                                                                         *)
(* Spec handles one event at a time.  SpecInterleave splits the platform_   *)
(* and the regenerate callback at the call of gemini.generate_content, so  *)
(* that other handlers run while a callback waits; pending holds the       *)
(* waiting handlers.  SpecSearch and SpecContext apply one handler to      *)
(* larger inputs.                                                          *)
(*                                                                         *)
(* The elif of line 192 is indented one level too deep in the source; the  *)
(* dispatch chain is modelled at the level of the elif branches of lines   *)
(* 265, 321 and the else of line 393.                                      *)
(***************************************************************************)
EXTENDS Integers, Sequences, FiniteSets, Bags, TLC

VARIABLES user_sessions, now, searched, menu, last, pending

vars == <<user_sessions, now, searched, menu, last, pending>>

\* ---------------------------------------------------------------- bounds
MaxClock == 3
MaxArgLen == 2
MaxResults == 27
MaxSnippet == 4991
MaxPending == 1

\* ------------------------------------------------------ program constants
ResultCap == 25
ContextCap == 5000

Chats == {1, 2}

\* ------------------------------------------------------------ strings
Min(a, b) == IF a < b THEN a ELSE b

Chars == {" ", "a"}

SeqsUpTo(S, n) == UNION {[1..k -> S] : k \in 0..n}

RECURSIVE lstrip(_)
lstrip(s) == IF s # <<>> /\ Head(s) = " " THEN lstrip(Tail(s)) ELSE s

RECURSIVE rstrip(_)
rstrip(s) ==
  IF s # <<>> /\ s[Len(s)] = " " THEN rstrip(SubSeq(s, 1, Len(s) - 1)) ELSE s

strip(s) == rstrip(lstrip(s))

\* text.split(' ', 1): the pieces around the first space, one piece if none
FirstSpace(s) ==
  IF \E i \in 1..Len(s) : s[i] = " "
  THEN CHOOSE i \in 1..Len(s) : s[i] = " " /\ \A j \in 1..(i - 1) : s[j] # " "
  ELSE 0

split1(s) ==
  IF FirstSpace(s) = 0 THEN <<s>>
  ELSE <<SubSeq(s, 1, FirstSpace(s) - 1), SubSeq(s, FirstSpace(s) + 1, Len(s))>>

\* the texts of messages the 'search' command filter lets through: the
\* command word alone, or followed by a space and up to MaxArgLen characters
AllMessages ==
  {<<"/search">>} \cup
  {<<"/search", " ">> \o s : s \in SeqsUpTo(Chars, MaxArgLen)}

\* three of them: no query, an empty query, and a query followed by a space
Messages ==
  {<<"/search">>, <<"/search", " ">>, <<"/search", " ", "a", " ">>}

\* ------------------------------------------------------ provider results
AllKeys == {"title", "url", "content"}

\* a result record: the keys it has, and its content snippet
Rec(i, keys) == [id |-> i, keys |-> keys, content |-> <<>>]

\* a record whose content snippet is n times the letter of the record
Letters == <<"a", "b", "c", "d", "e", "f", "g", "h", "i", "j", "k", "l">>

Snippet(i, n) ==
  [id |-> i, keys |-> AllKeys, content |-> [j \in 1..n |-> Letters[i]]]

FullList(n) == [i \in 1..n |-> Rec(i, AllKeys)]

\* the list of n records whose k-th record lacks key
Lacking(n, k, key) ==
  [i \in 1..n |-> Rec(i, IF i = k THEN AllKeys \ {key} ELSE AllKeys)]

\* the empty list, a list of one record, and one whose record has no title
ShortLists == {FullList(0), FullList(1), Lacking(1, 1, "title")}

\* result lists of every length up to MaxResults
LongLists ==
  {FullList(n) : n \in 0..MaxResults} \cup
  {Lacking(n, n, "title") : n \in (ResultCap - 1)..MaxResults}

\* lists for the context: one and two records with snippets of a few
\* characters and of lengths that bring the context to ContextCap, a list
\* whose records lack the content key, and one of eleven records
SnippetSizes == {0, 1, MaxSnippet - 2, MaxSnippet - 1, MaxSnippet}

ContextLists ==
  {<<Snippet(1, n)>> : n \in SnippetSizes}
  \cup {<<Snippet(1, n), Snippet(2, m)>> :
          n \in SnippetSizes, m \in {0, MaxSnippet}}
  \cup {Lacking(2, 1, "content"), Lacking(2, 2, "content"),
        <<Snippet(1, MaxSnippet), Rec(2, AllKeys \ {"content"}),
          Snippet(3, 2)>>,
        [i \in 1..11 |-> Snippet(i, 500)]}

\* outcomes of tavily.search: it raises, or returns a response that may
\* have no 'results' key
Raises == [kind |-> "raise", results |-> <<>>]

Responses(lists) ==
  {Raises, [kind |-> "nokey", results |-> <<>>]}
  \cup {[kind |-> "ok", results |-> l] : l \in lists}

\* a slice that keeps the tail of the list
CapResultsTail(resp) ==
  SubSeq(resp.results, Len(resp.results) - Min(Len(resp.results), ResultCap) + 1,
         Len(resp.results))

\* search_response.get('results', [])[:25]
CapResults(resp) == SubSeq(resp.results, 1, Min(Len(resp.results), ResultCap))

\* ---------------------------------------------------- messaging transport
NoLinks == <<>>
NoButtons == <<>>

Msg(api, text, links, buttons) ==
  [api |-> api, text |-> text, links |-> links, buttons |-> buttons]

\* the record of a transport call that returned, and of one that raised
Sent(sends, m) ==
  Append(sends, [api |-> m.api, text |-> m.text, links |-> m.links,
                 buttons |-> m.buttons, ok |-> TRUE])

Failed(sends, m) ==
  Append(sends, [api |-> m.api, text |-> m.text, links |-> m.links,
                 buttons |-> m.buttons, ok |-> FALSE])

\* the result of a handler: the session store, the transport calls and the
\* provider calls it made, and whether an exception left the handler
Outcome(store, sends, calls, escaped) ==
  [store |-> store, sends |-> sends, calls |-> calls, escaped |-> escaped]

\* a transport call made inside an except clause that no try encloses: if
\* it raises, the exception leaves the handler
Unguarded(store, sends, calls, m) ==
  {Outcome(store, Sent(sends, m), calls, FALSE),
   Outcome(store, Failed(sends, m), calls, TRUE)}

\* ------------------------------------------------------------ sessions
\* d[k] = v on a dict
SetKey(d, k, v) == [x \in (DOMAIN d) \cup {k} |-> IF x = k THEN v ELSE d[x]]

NewSession(results, query, t) ==
  [results |-> results, search_query |-> query, timestamp |-> t]

\* ------------------------------------------------------------ handle_search
\* except Exception of handle_search
SearchUnexpected(store, sends, calls) ==
  Unguarded(store, sends, calls,
            Msg("reply_to", "Unexpected", NoLinks, NoButtons))

\* except IndexError of handle_search
SearchUsage(store, sends, calls) ==
  Unguarded(store, sends, calls, Msg("reply_to", "Usage", NoLinks, NoButtons))

\* except Exception of the inner try around tavily.search
SearchFailed(store, sends, calls) ==
  LET m == Msg("reply_to", "SearchFailed", NoLinks, NoButtons)
  IN {Outcome(store, Sent(sends, m), calls, FALSE)}
     \cup SearchUnexpected(store, Failed(sends, m), calls)

\* if not results: inside the inner try
SearchEmpty(store, sends, calls) ==
  LET m == Msg("reply_to", "NoResults", NoLinks, NoButtons)
  IN {Outcome(store, Sent(sends, m), calls, FALSE)}
     \cup SearchFailed(store, Failed(sends, m), calls)

\* a write that updates the keys of the session the chat has
StoreSessionMerge(store, chat, results, query, t) ==
  IF chat \in DOMAIN store
  THEN [store EXCEPT ![chat] =
          SetKey(SetKey(SetKey(@, "results", results), "search_query", query),
                 "timestamp", t)]
  ELSE SetKey(store, chat, NewSession(results, query, t))

\* the session written for a successful search
StoreSession(store, chat, results, query, t) ==
  SetKey(store, chat, NewSession(results, query, t))

\* the link buttons and the text of the result message; res['title'] and
\* res['url'] raise KeyError on a record without the key
RenderResults(store, results, sends, calls) ==
  IF \E i \in 1..Len(results) : ~({"title", "url"} \subseteq results[i].keys)
  THEN SearchUnexpected(store, sends, calls)
  ELSE LET m == Msg("edit_message_text", "Results",
                    [i \in 1..Len(results) |-> results[i].id],
                    <<[text |-> "Generate Content",
                       data |-> <<"generate", "content">>]>>)
       IN {Outcome(store, Sent(sends, m), calls, FALSE)}
          \cup SearchUnexpected(store, Failed(sends, m), calls)

\* a search that writes the session before it looks at the results
SearchCallStoresFirst(store, chat, query, resp, sends, t) ==
  IF resp.kind = "raise" THEN SearchFailed(store, sends, <<"search">>)
  ELSE IF CapResults(resp) = <<>>
    THEN SearchEmpty(StoreSession(store, chat, CapResults(resp), query, t),
                     sends, <<"search">>)
  ELSE RenderResults(StoreSession(store, chat, CapResults(resp), query, t),
                     CapResults(resp), sends, <<"search">>)

\* handle_search from the call of tavily.search on
SearchCall(store, chat, query, resp, sends, t) ==
  IF resp.kind = "raise" THEN SearchFailed(store, sends, <<"search">>)
  ELSE IF CapResults(resp) = <<>> THEN SearchEmpty(store, sends, <<"search">>)
  ELSE RenderResults(StoreSession(store, chat, CapResults(resp), query, t),
                     CapResults(resp), sends, <<"search">>)

\* the body of handle_search after the query is read
SearchBody(store, chat, query, resp, t) ==
  LET m == Msg("send_message", "Searching", NoLinks, NoButtons)
  IN SearchCall(store, chat, query, resp, Sent(<<>>, m), t)
     \cup SearchUnexpected(store, Failed(<<>>, m), <<>>)

\* the set of the outcomes of handle_search, one for each way its transport
\* calls can return or raise
handle_search(store, chat, text, resp, t) ==
  IF Len(split1(text)) < 2 THEN SearchUsage(store, <<>>, <<>>)
  ELSE SearchBody(store, chat, strip(split1(text)[2]), resp, t)

\* ------------------------------------------------- handle_all_callbacks
\* str(n) of the f-string, for n >= 0
DigitChars == <<"0", "1", "2", "3", "4", "5", "6", "7", "8", "9">>

RECURSIVE Digits(_)
Digits(n) ==
  IF n < 10 THEN <<DigitChars[n + 1]>>
  ELSE Digits(n \div 10) \o <<DigitChars[(n % 10) + 1]>>

\* f"Source {i+1}:\n{res.get('content', '')}" for the record at index i,
\* here numbered from 1
SourcePart(res, k) ==
  <<"S", "o", "u", "r", "c", "e", " ">> \o Digits(k) \o <<":", "\n">>
  \o (IF "content" \in res.keys THEN res.content ELSE <<>>)

\* sep.join(parts)
RECURSIVE join(_, _)
join(sep, parts) ==
  IF parts = <<>> THEN <<>>
  ELSE IF Len(parts) = 1 THEN parts[1]
  ELSE parts[1] \o sep \o join(sep, Tail(parts))

\* context = "\n\n".join([...])
BuildContext(results) ==
  join(<<"\n", "\n">>, [i \in 1..Len(results) |-> SourcePart(results[i], i)])

\* a slice that keeps one character more
SliceOneMore(s, n) == SubSeq(s, 1, Min(Len(s), n + 1))

\* s[:n]
Slice(s, n) == SubSeq(s, 1, Min(Len(s), n))

\* the two prompts: the fixed text before the context is one token and the
\* fixed text after it is one token
PlatformPrompt(results) ==
  <<"CreateContent">> \o Slice(BuildContext(results), ContextCap)
  \o <<"FormatForPlatforms">>

RegeneratePrompt(results) ==
  <<"RegenerateContent">> \o Slice(BuildContext(results), ContextCap)
  \o <<"Requirements">>

\* outcomes of gemini.generate_content: it raises, or response.text is a
\* text, which may be empty
Texts == {<<>>, <<"x">>, <<"y">>}

GenOutcomes == {[kind |-> "raise", text |-> <<>>]} \cup
               {[kind |-> "ok", text |-> t] : t \in Texts}

Button(label, data) == [text |-> label, data |-> data]

GENERATE_CONTENT == <<"generate", "content">>
CREATE_THUMBNAIL == <<"create", "thumbnail">>
REGENERATE == <<"regenerate">>
POST_CONTENT == <<"post", "content">>
DEFAULT_PROMPT == <<"default", "prompt">>
CUSTOM_PROMPT == <<"custom", "prompt">>
PlatformButtons ==
  <<Button("Twitter", <<"platform", "twitter">>),
    Button("Instagram", <<"platform", "instagram">>),
    Button("LinkedIn", <<"platform", "linkedin">>)>>

\* call.data.startswith('platform_')
IsPlatform(data) == Len(data) >= 2 /\ data[1] = "platform"

\* the callback identifiers a user can send
CallbackData ==
  {GENERATE_CONTENT, <<"platform", "twitter">>, CREATE_THUMBNAIL, REGENERATE,
   POST_CONTENT, DEFAULT_PROMPT, CUSTOM_PROMPT}

NoGen == [kind |-> "none", text |-> <<>>]

\* except Exception at the top of handle_all_callbacks
CallbackCritical(store, sends, calls) ==
  Unguarded(store, sends, calls,
            Msg("answer_callback_query", "ErrorOccurred", NoLinks, NoButtons))

\* a transport call after which the handler returns
SendAndReturn(store, sends, calls, m) ==
  {Outcome(store, Sent(sends, m), calls, FALSE)}
  \cup CallbackCritical(store, Failed(sends, m), calls)

\* a session check that creates the missing session
NoSessionCreates(store, chat) ==
  SendAndReturn(SetKey(store, chat, <<>>), <<>>, <<>>,
    Msg("answer_callback_query", "SessionExpired", NoLinks, NoButtons))

\* chat_id not in user_sessions
NoSessionBranch(store, chat) ==
  SendAndReturn(store, <<>>, <<>>,
    Msg("answer_callback_query", "SessionExpired", NoLinks, NoButtons))

\* call.data == 'generate_content'
PlatformMenuBranch(store) ==
  SendAndReturn(store, <<>>, <<>>,
    Msg("edit_message_text", "PlatformMenu", NoLinks, PlatformButtons))

\* 'results' not in session or not session['results']
MissingResults(session) ==
  "results" \notin DOMAIN session \/ session.results = <<>>

\* a write that appends the text to the content the session holds
StoreContentAppend(store, chat, text, t) ==
  [store EXCEPT ![chat] =
     SetKey(SetKey(@, "content",
                   IF "content" \in DOMAIN @ THEN @.content \o text ELSE text),
            "timestamp", t)]

\* a write that also drops the first of the results
StoreContentTrims(store, chat, text, t) ==
  [store EXCEPT ![chat] =
     SetKey(SetKey(SetKey(@, "content", text), "timestamp", t),
            "results", Tail(@.results))]

\* session['content'] = response.text; session['timestamp'] = now
StoreContent(store, chat, text, t) ==
  [store EXCEPT ![chat] = SetKey(SetKey(@, "content", text), "timestamp", t)]

\* except Exception around the generation: the notice, then raise; the
\* exception reaches the top of the handler whether the notice is sent or not
GenerationExcept(store, sends, calls, notice) ==
  LET m == Msg("answer_callback_query", notice, NoLinks, NoButtons)
  IN CallbackCritical(store, Sent(sends, m), calls)
     \cup CallbackCritical(store, Failed(sends, m), calls)

\* the message edit that shows the generated text, and its except clause
RenderContent(store, calls, view, tooLong, failed, post) ==
  LET m == Msg("edit_message_text", view, NoLinks,
               <<Button("Regenerate", REGENERATE), Button("Post", post)>>)
      n == Msg("answer_callback_query", tooLong, NoLinks, NoButtons)
  IN {Outcome(store, Sent(<<>>, m), calls, FALSE),
      Outcome(store, Sent(Failed(<<>>, m), n), calls, FALSE)}
     \cup GenerationExcept(store, Failed(Failed(<<>>, m), n), calls, failed)

\* a branch that stores the text before it tests it
GenerateBranchStoresFirst(store, chat, gen, t, view, tooLong, failed, post) ==
  IF MissingResults(store[chat])
  THEN SendAndReturn(store, <<>>, <<>>,
         Msg("answer_callback_query", "MissingData", NoLinks, NoButtons))
  ELSE IF gen.kind = "raise"
  THEN GenerationExcept(store, <<>>, <<"generate">>, failed)
  ELSE IF gen.text = <<>>
  THEN GenerationExcept(StoreContent(store, chat, gen.text, t), <<>>,
                        <<"generate">>, failed)
  ELSE RenderContent(StoreContent(store, chat, gen.text, t), <<"generate">>,
                     view, tooLong, failed, post)

\* the platform_ branch and the regenerate branch, which differ in their
\* texts and in the identifier of the post button
GenerateBranch(store, chat, gen, t, view, tooLong, failed, post) ==
  IF MissingResults(store[chat])
  THEN SendAndReturn(store, <<>>, <<>>,
         Msg("answer_callback_query", "MissingData", NoLinks, NoButtons))
  ELSE IF gen.kind = "raise" \/ gen.text = <<>>
  THEN GenerationExcept(store, <<>>, <<"generate">>, failed)
  ELSE RenderContent(StoreContent(store, chat, gen.text, t), <<"generate">>,
                     view, tooLong, failed, post)

\* a platform branch that shows the text and does not keep it
PlatformBranchNoStore(store, chat, gen, t) ==
  {[r EXCEPT !.store = store] :
     r \in GenerateBranch(store, chat, gen, t, "GeneratedContent", "TooLong",
                          "GenerationFailed", POST_CONTENT)}

PlatformBranch(store, chat, gen, t) ==
  GenerateBranch(store, chat, gen, t, "GeneratedContent", "TooLong",
                 "GenerationFailed", POST_CONTENT)

RegenerateBranch(store, chat, gen, t) ==
  GenerateBranch(store, chat, gen, t, "RevisedContent", "RegenTooLong",
                 "RegenerationFailed", CREATE_THUMBNAIL)

\* the create_thumbnail branch: it returns after the menu, so the content
\* check and the generate_image call below the return are never executed
ThumbnailBranch(store, chat) ==
  SendAndReturn(store, <<>>, <<>>,
    Msg("edit_message_text", "ThumbnailMenu", NoLinks,
        <<Button("Default Prompt", DEFAULT_PROMPT),
          Button("Custom Prompt", CUSTOM_PROMPT)>>))

\* an else branch that drops the sessions
UnknownBranchClears(store) ==
  SendAndReturn(<<>>, <<>>, <<>>,
    Msg("answer_callback_query", "Unknown", NoLinks, NoButtons))

\* the else branch
UnknownBranch(store) ==
  SendAndReturn(store, <<>>, <<>>,
    Msg("answer_callback_query", "Unknown", NoLinks, NoButtons))

\* the set of the outcomes of handle_all_callbacks, one for each way its
\* transport calls can return or raise
handle_all_callbacks(store, chat, data, gen, t) ==
  IF chat \notin DOMAIN store THEN NoSessionBranch(store, chat)
  ELSE IF data = GENERATE_CONTENT THEN PlatformMenuBranch(store)
  ELSE IF IsPlatform(data) THEN PlatformBranch(store, chat, gen, t)
  ELSE IF data = CREATE_THUMBNAIL THEN ThumbnailBranch(store, chat)
  ELSE IF data = REGENERATE THEN RegenerateBranch(store, chat, gen, t)
  ELSE UnknownBranch(store)

\* ------------------------------------------------------------ state machine
Elems(s) == {s[i] : i \in 1..Len(s)}

\* the prompt a handler that called gemini.generate_content passed
PromptOf(store, chat, data) ==
  IF IsPlatform(data) THEN PlatformPrompt(store[chat].results)
  ELSE RegeneratePrompt(store[chat].results)

\* what the handler found stored for the chat: whether a session, and its
\* content if it had one
Had(store, chat) ==
  IF chat \notin DOMAIN store THEN <<>>
  ELSE IF "content" \in DOMAIN store[chat] THEN <<"session", store[chat].content>>
  ELSE <<"session">>

\* the texts of the messages a handler rendered with edit_message_text
Rendered(sends) ==
  {sends[i].text : i \in {j \in 1..Len(sends) :
                            sends[j].api = "edit_message_text" /\ sends[j].ok}}

\* the chats in state ThumbnailMenuShown: their message shows the
\* image-prompt-choice buttons, rendered while the session held content
Menu(old, chat, had, sends) ==
  IF Rendered(sends) = {} THEN old
  ELSE IF Rendered(sends) = {"ThumbnailMenu"} /\ Len(had) = 2
    THEN old \cup {chat}
  ELSE old \ {chat}

Init ==
  /\ user_sessions = <<>>
  /\ now = 0
  /\ searched = {}
  /\ menu = {}
  /\ last = [op |-> "init", chat |-> 0, data |-> <<>>, resp |-> "none",
             given |-> <<>>, gen |-> NoGen, prompt |-> <<>>, had |-> <<>>,
             sends |-> <<>>, calls |-> <<>>, escaped |-> FALSE]
  /\ pending = EmptyBag

\* now counts the clock readings stored so far: datetime.now() is read
\* into a session on every write and on no other path, and it increases
Step(chat, r) ==
  /\ now < MaxClock
  /\ now' = IF r.store = user_sessions THEN now ELSE now + 1
  /\ user_sessions' = r.store
  /\ menu' = Menu(menu, chat, Had(user_sessions, chat), r.sends)

\* a handler that waits on gemini.generate_content: its local variables
\* chat_id, call.data, results and prompt, and its local variable session.
\* session names the dict that was user_sessions[chat_id] at line 172; bound
\* tells whether user_sessions[chat_id] still is that dict, and when it is
\* not, session is the value of the dict.  pending is the bag of the
\* handlers that wait
Waiting(store, chat, data) ==
  [chat |-> chat, data |-> data, results |-> store[chat].results,
   prompt |-> PromptOf(store, chat, data), bound |-> TRUE, session |-> <<>>]

\* user_sessions[chat_id] = {...} of a search binds the chat to a new dict:
\* the handlers that wait with the old one keep it
Rebound(waiting, chat, store, after) ==
  LET Unbind(p) == IF p.chat = chat /\ p.bound
                   THEN [p EXCEPT !.bound = FALSE, !.session = store[chat]]
                   ELSE p
  IN IF after = store THEN waiting ELSE BagOfAll(Unbind, waiting)

\* the store as the waiting handler sees it through its variable session
HeldView(store, p) ==
  IF p.bound THEN store ELSE SetKey(store, p.chat, p.session)

\* writes that go through user_sessions[chat_id] and not through session
StoreAfterLooksUp(store, p, after) ==
  IF "content" \in DOMAIN after[p.chat]
     /\ after[p.chat] # HeldView(store, p)[p.chat]
  THEN StoreContent(store, p.chat, after[p.chat].content,
                    after[p.chat].timestamp)
  ELSE store

\* user_sessions after the writes of lines 236-237 and 364-365 to the
\* dict session names
StoreAfter(store, p, after) == IF p.bound THEN after ELSE store

\* the handlers that wait with the same dict as p see its writes
Shared(waiting, p, after) ==
  LET See(q) == IF ~p.bound /\ ~q.bound /\ q.chat = p.chat
                   /\ q.session = p.session
                THEN [q EXCEPT !.session = after[p.chat]]
                ELSE q
  IN BagOfAll(See, waiting)

\* what last keeps of a message text and of a provider response
Query(text) ==
  IF Len(split1(text)) < 2 THEN <<"/search">> ELSE strip(split1(text)[2])

Kind(resp) == IF resp.kind = "raise" THEN "raise" ELSE "returned"

Search(chat, text, resp) ==
  \E r \in handle_search(user_sessions, chat, text, resp, now + 1) :
     /\ "search" \notin Elems(r.calls) => resp = Raises
     /\ Step(chat, r)
     /\ searched' = IF "search" \in Elems(r.calls) /\ resp.results # <<>>
                    THEN searched \cup {chat} ELSE searched
     /\ pending' = Rebound(pending, chat, user_sessions, r.store)
     /\ last' = [op |-> "search", chat |-> chat, data |-> Query(text),
                 resp |-> IF "search" \in Elems(r.calls) THEN Kind(resp)
                          ELSE "none",
                 given |-> IF "search" \in Elems(r.calls)
                           THEN resp.results ELSE <<>>,
                 gen |-> NoGen, prompt |-> <<>>,
                 had |-> Had(user_sessions, chat),
                 sends |-> r.sends, calls |-> r.calls, escaped |-> r.escaped]

Callback(chat, data, gen) ==
  \E r \in handle_all_callbacks(user_sessions, chat, data, gen, now + 1) :
     /\ "generate" \notin Elems(r.calls) => gen.kind = "raise"
     /\ Step(chat, r)
     /\ searched' = searched
     /\ pending' = pending
     /\ last' = [op |-> "callback", chat |-> chat, data |-> data,
                 resp |-> "none", given |-> <<>>,
                 gen |-> IF "generate" \in Elems(r.calls) THEN gen ELSE NoGen,
                 prompt |-> IF "generate" \in Elems(r.calls)
                            THEN PromptOf(user_sessions, chat, data) ELSE <<>>,
                 had |-> Had(user_sessions, chat),
                 sends |-> r.sends, calls |-> r.calls, escaped |-> r.escaped]

\* handle_all_callbacks up to the call of gemini.generate_content, in the
\* platform_ and the regenerate branch
CallbackBegin(chat, data) ==
  /\ BagCardinality(pending) < MaxPending
  /\ chat \in DOMAIN user_sessions
  /\ IsPlatform(data) \/ data = REGENERATE
  /\ ~MissingResults(user_sessions[chat])
  /\ pending' = pending (+) SetToBag({Waiting(user_sessions, chat, data)})
  /\ UNCHANGED <<user_sessions, now, searched, menu, last>>

\* handle_all_callbacks from the return of gemini.generate_content on
CallbackEnd(p, gen) ==
  LET view == HeldView(user_sessions, p)
  IN \E r \in (IF IsPlatform(p.data)
               THEN PlatformBranch(view, p.chat, gen, now + 1)
               ELSE RegenerateBranch(view, p.chat, gen, now + 1)) :
       /\ now < MaxClock
       /\ now' = IF r.store = view THEN now ELSE now + 1
       /\ user_sessions' = StoreAfter(user_sessions, p, r.store)
       /\ menu' = Menu(menu, p.chat, Had(view, p.chat), r.sends)
       /\ searched' = searched
       /\ pending' = Shared(pending (-) SetToBag({p}), p, r.store)
       /\ last' = [op |-> "callback", chat |-> p.chat, data |-> p.data,
                   resp |-> "none", given |-> <<>>, gen |-> gen,
                   prompt |-> p.prompt, had |-> Had(view, p.chat),
                   sends |-> r.sends, calls |-> r.calls,
                   escaped |-> r.escaped,
                   read |-> p.results, stale |-> ~p.bound]

Next ==
  \E chat \in Chats :
    \/ \E text \in Messages, resp \in Responses(ShortLists) :
         Search(chat, text, resp)
    \/ \E data \in CallbackData, gen \in GenOutcomes :
         Callback(chat, data, gen)

Spec == Init /\ [][Next]_vars

\* searches and generating callbacks of the chats whose handlers
\* interleave: a callback waits on the text-generation provider while other
\* handlers run
InterleavedChats == {1}

\* a search that raises, and searches that store the one and the other list
InterleavedResponses ==
  {Raises} \cup {[kind |-> "ok", results |-> l] :
                   l \in {FullList(1), Lacking(1, 1, "title")}}

NextInterleave ==
  \/ \E chat \in InterleavedChats, text \in Messages,
        resp \in InterleavedResponses :
       Search(chat, text, resp)
  \/ \E chat \in InterleavedChats,
        data \in {<<"platform", "twitter">>, REGENERATE} :
       CallbackBegin(chat, data)
  \/ \E p \in BagToSet(pending), gen \in GenOutcomes : CallbackEnd(p, gen)

SpecInterleave == Init /\ [][NextInterleave]_vars

\* one search from the initial state, over every message text up to
\* MaxArgLen and result lists of every length up to MaxResults
NextSearch ==
  \E chat \in Chats, text \in AllMessages, resp \in Responses(LongLists) :
    last.op = "init" /\ Search(chat, text, resp)

SpecSearch == Init /\ [][NextSearch]_vars

\* one platform_ or regenerate callback for a chat whose session holds one
\* of the lists of ContextLists
InitContext ==
  /\ user_sessions \in
       {[c \in {1} |-> NewSession(l, <<"a">>, 1)] : l \in ContextLists}
  /\ now = 1
  /\ searched = {1}
  /\ menu = {}
  /\ last = [op |-> "init", chat |-> 0, data |-> <<>>, resp |-> "none",
             given |-> <<>>, gen |-> NoGen, prompt |-> <<>>, had |-> <<>>,
             sends |-> <<>>, calls |-> <<>>, escaped |-> FALSE]
  /\ pending = EmptyBag

NextContext ==
  \E data \in {<<"platform", "twitter">>, REGENERATE}, gen \in GenOutcomes :
    last.op = "init" /\ Callback(1, data, gen)

SpecContext == InitContext /\ [][NextContext]_vars

\* ------------------------------------------------------------ properties
\* the texts of the transport calls of the last handler, and the providers
\* it called
Issued(text) == \E i \in 1..Len(last.sends) : last.sends[i].text = text

Delivered(text) ==
  \E i \in 1..Len(last.sends) : last.sends[i].text = text /\ last.sends[i].ok

Called(provider) == provider \in Elems(last.calls)

Labels(buttons) == [i \in 1..Len(buttons) |-> buttons[i].text]

Generated ==
  /\ last.op = "callback"
  /\ Called("generate")
  /\ last.gen.kind = "ok"
  /\ last.gen.text # <<>>

\* C1: a callback for a chat that has no session, whatever its identifier,
\* issues the 'session expired' notice first, calls no provider and leaves
\* the session store as it was; and a handler calls the text-generation or
\* the image provider for a chat only after a search for that chat returned
\* results.
C1_NoSessionRejected ==
  [][/\ (last'.op = "callback" /\ last'.chat \notin DOMAIN user_sessions)
          => /\ user_sessions' = user_sessions
             /\ last'.calls = <<>>
             /\ last'.sends[1].text = "SessionExpired"
             /\ last'.sends[1].ok => Len(last'.sends) = 1
     /\ (last'.op = "callback"
         /\ Elems(last'.calls) \cap {"generate", "image"} # {})
          => last'.chat \in searched]_vars

C1_Witness ==
  /\ last.op = "callback"
  /\ last.data = REGENERATE
  /\ last.had = <<>>
  /\ last.chat \notin DOMAIN user_sessions
  /\ user_sessions # <<>>
  /\ Delivered("SessionExpired")

\* C2: a create_thumbnail callback for a chat whose session holds no content
\* is rejected: the image-prompt-choice menu is not rendered and the image
\* provider is not called.
C2_ThumbnailNeedsContent ==
  (last.op = "callback" /\ last.data = CREATE_THUMBNAIL
   /\ last.had = <<"session">>)
    => ~Issued("ThumbnailMenu") /\ ~Called("image")

\* C3: a /search whose provider call raises or returns no result issues a
\* notice and leaves the session store exactly as it was.
C3_FailedSearchKeepsStore ==
  [][(last'.op = "search" /\ "search" \in Elems(last'.calls)
      /\ (last'.resp = "raise" \/ last'.given = <<>>))
       => /\ user_sessions' = user_sessions
          /\ last'.sends[2].text =
               IF last'.resp = "raise" THEN "SearchFailed" ELSE "NoResults"]_vars

C3_Witness ==
  /\ last.op = "search"
  /\ last.resp = "returned"
  /\ last.given = <<>>
  /\ last.had = <<"session", <<"x">>>>
  /\ Delivered("NoResults")
  /\ user_sessions[last.chat].content = <<"x">>

\* C4: a search that returns results replaces the session of the chat as a
\* whole: it holds the new results, the new query and a timestamp and no
\* content, and the sessions of the other chats are as they were.
C4_SearchOverwrites ==
  [][(last'.op = "search" /\ last'.resp = "returned" /\ last'.given # <<>>)
       => /\ last'.chat \in DOMAIN user_sessions'
          /\ DOMAIN user_sessions'[last'.chat] =
               {"results", "search_query", "timestamp"}
          /\ user_sessions'[last'.chat].results =
               SubSeq(last'.given, 1, Len(user_sessions'[last'.chat].results))
          /\ Len(user_sessions'[last'.chat].results) =
               Min(Len(last'.given), ResultCap)
          /\ user_sessions'[last'.chat].search_query = last'.data
          /\ \A c \in Chats \ {last'.chat} :
               /\ c \in DOMAIN user_sessions' <=> c \in DOMAIN user_sessions
               /\ c \in DOMAIN user_sessions
                    => user_sessions'[c] = user_sessions[c]]_vars

C4_Witness ==
  /\ last.op = "search"
  /\ last.resp = "returned"
  /\ last.given # <<>>
  /\ last.had = <<"session", <<"x">>>>
  /\ "content" \notin DOMAIN user_sessions[last.chat]

\* C5: the results a search stores, and the link buttons it renders, are
\* the first min(n, 25) of the n results of the provider, in their order.
C5_FirstResultsKept ==
  (last.op = "search" /\ last.resp = "returned" /\ last.given # <<>>)
    => /\ Len(user_sessions[last.chat].results) =
            IF Len(last.given) <= 25 THEN Len(last.given) ELSE 25
       /\ \A i \in 1..Len(user_sessions[last.chat].results) :
            user_sessions[last.chat].results[i] = last.given[i]
       /\ \A k \in 1..Len(last.sends) :
            last.sends[k].text = "Results"
              => /\ Len(last.sends[k].links) =
                      Len(user_sessions[last.chat].results)
                 /\ \A i \in 1..Len(last.sends[k].links) :
                      last.sends[k].links[i] = last.given[i].id

C5_Witness ==
  /\ last.op = "search"
  /\ Len(last.given) = 27
  /\ Len(user_sessions[last.chat].results) = 25
  /\ Delivered("Results")

\* C6: after a regenerate callback whose generation returned a text, the
\* content of the session is that text alone, whatever content the session
\* held before.
C6_RegenerateReplaces ==
  (Generated /\ last.data = REGENERATE)
    => /\ "content" \in DOMAIN user_sessions[last.chat]
       /\ user_sessions[last.chat].content = last.gen.text

C6_Witness ==
  /\ Generated
  /\ last.data = REGENERATE
  /\ last.gen.text = <<"y">>
  /\ last.had = <<"session", <<"x">>>>
  /\ user_sessions[last.chat].content = <<"y">>

C8_PromptChoiceCallsImage ==
  (last.op = "callback" /\ last.data \in {DEFAULT_PROMPT, CUSTOM_PROMPT}
   /\ last.chat \in menu /\ Len(last.had) = 2)
    => Called("image")

\* C9: no exception leaves handle_search or handle_all_callbacks, whatever
\* provider and transport calls raise.
C9_NoExceptionEscapes == last.escaped = FALSE

\* C10: when the generation returned a text and the message edit that shows
\* it raises, the session keeps the text, the handler issues the 'too long'
\* notice and no other, and the exception does not reach the except clause at
\* the top of the handler.
C10_RenderFailureCaught ==
  (Generated /\ ~last.sends[1].ok)
    => /\ "content" \in DOMAIN user_sessions[last.chat]
       /\ user_sessions[last.chat].content = last.gen.text
       /\ Len(last.sends) = 2
       /\ last.sends[2].text \in {"TooLong", "RegenTooLong"}
       /\ ~Issued("ErrorOccurred")
       /\ ~last.escaped

\* C11: a callback for a chat that has a session, with an identifier that is
\* none of generate_content, platform_*, create_thumbnail and regenerate,
\* issues the 'unknown command' notice first, calls no provider and leaves
\* the session store as it was.
C11_UnknownRejected ==
  [][(/\ last'.op = "callback"
      /\ last'.chat \in DOMAIN user_sessions
      /\ last'.data \notin {GENERATE_CONTENT, CREATE_THUMBNAIL, REGENERATE}
      /\ ~IsPlatform(last'.data))
       => /\ user_sessions' = user_sessions
          /\ last'.calls = <<>>
          /\ last'.sends[1].api = "answer_callback_query"
          /\ last'.sends[1].text = "Unknown"
          /\ last'.sends[1].ok => Len(last'.sends) = 1]_vars

C11_Witness ==
  /\ last.op = "callback"
  /\ last.data = POST_CONTENT
  /\ last.had = <<"session", <<"x">>>>
  /\ Delivered("Unknown")
  /\ user_sessions[last.chat].content = <<"x">>

\* the context segment of a prompt, and the place of every character of the
\* concatenation of the labelled snippets, counted part by part
ContextOf(prompt) == SubSeq(prompt, 2, Len(prompt) - 1)

NumDigits(k) == IF k < 10 THEN 1 ELSE IF k < 100 THEN 2 ELSE 3

\* the k-th part of the concatenation: label, snippet, and the two newlines
\* that separate it from the next part
ExpectedPart(results, k) ==
  <<"S", "o", "u", "r", "c", "e", " ">>
  \o [j \in 1..NumDigits(k) |->
        DigitChars[((k \div 10 ^ (NumDigits(k) - j)) % 10) + 1]]
  \o <<":", "\n">>
  \o (IF "content" \in results[k].keys THEN results[k].content ELSE <<>>)
  \o (IF k < Len(results) THEN <<"\n", "\n">> ELSE <<>>)

\* the number of characters before the k-th part
RECURSIVE PartStart(_, _)
PartStart(results, k) ==
  IF k = 1 THEN 0
  ELSE PartStart(results, k - 1) + Len(ExpectedPart(results, k - 1))

ContextLen(results) ==
  IF results = <<>> THEN 0
  ELSE PartStart(results, Len(results))
       + Len(ExpectedPart(results, Len(results)))

\* C12: in the platform and in the regenerate mode alike, the context segment
\* of the prompt passed to the text-generation provider is the first
\* min(L, 5000) characters of the concatenation, of length L, of the
\* 'Source N:' labelled content snippets of the results in their order,
\* joined by two newlines.
C12_ContextTruncated ==
  (last.op = "callback" /\ Called("generate"))
    => LET results == user_sessions[last.chat].results
           seg == ContextOf(last.prompt)
       IN /\ last.prompt[1] = IF IsPlatform(last.data) THEN "CreateContent"
                               ELSE "RegenerateContent"
          /\ Len(seg) = IF ContextLen(results) <= 5000
                        THEN ContextLen(results) ELSE 5000
          /\ \A k \in 1..Len(results) :
               LET start == PartStart(results, k)
                   part == ExpectedPart(results, k)
                   m == Min(Len(part), Len(seg) - start)
               IN m > 0 => SubSeq(seg, start + 1, start + m) = SubSeq(part, 1, m)

C12_Witness ==
  /\ last.op = "callback"
  /\ last.data = REGENERATE
  /\ Called("generate")
  /\ ContextLen(user_sessions[last.chat].results) >= 10000
  /\ Len(ContextOf(last.prompt)) = 5000
  /\ last.prompt[5001] = "a"

\* C13: a callback, whatever its identifier and whether it succeeds or
\* fails, leaves the results and the query of the session of its chat, and
\* the sessions of the other chats, as they were.
C13_ResultsOnlyRead ==
  [][(last'.op = "callback" /\ last'.chat \in DOMAIN user_sessions)
       => /\ DOMAIN user_sessions' = DOMAIN user_sessions
          /\ user_sessions'[last'.chat].results =
               user_sessions[last'.chat].results
          /\ user_sessions'[last'.chat].search_query =
               user_sessions[last'.chat].search_query
          /\ \A c \in DOMAIN user_sessions \ {last'.chat} :
               user_sessions'[c] = user_sessions[c]]_vars

C13_Witness ==
  /\ Generated
  /\ IsPlatform(last.data)
  /\ last.had = <<"session", <<"x">>>>
  /\ user_sessions[last.chat].content = <<"y">>
  /\ user_sessions[last.chat].results # <<>>

\* C14: when the text-generation call of a platform or a regenerate
\* callback raises or returns an empty text, the session store is as it was
\* before the callback, content and timestamp included, and the first
\* transport call of the handler is the failure notice of its branch.
C14_FailedGenerationKeepsSession ==
  [][(/\ last'.op = "callback"
      /\ "generate" \in Elems(last'.calls)
      /\ (last'.gen.kind = "raise" \/ last'.gen.text = <<>>))
       => /\ user_sessions' = user_sessions
          /\ last'.sends[1].api = "answer_callback_query"
          /\ last'.sends[1].text =
               IF IsPlatform(last'.data) THEN "GenerationFailed"
               ELSE "RegenerationFailed"]_vars

C14_Witness ==
  /\ last.op = "callback"
  /\ last.data = REGENERATE
  /\ Called("generate")
  /\ last.gen = [kind |-> "ok", text |-> <<>>]
  /\ last.had = <<"session", <<"x">>>>
  /\ user_sessions[last.chat].content = <<"x">>
  /\ Delivered("RegenerationFailed")

\* C15: the post button of every content message a callback rendered, after
\* a platform generation or after a regenerate, carries an identifier that
\* handle_all_callbacks answers by rendering the image-prompt-choice menu.
C15_PostButtonOpensMenu ==
  \A i \in 1..Len(last.sends) :
    (/\ last.op = "callback"
     /\ last.sends[i].ok
     /\ last.sends[i].text \in {"GeneratedContent", "RevisedContent"})
      => \A r \in handle_all_callbacks(user_sessions, last.chat,
                                       last.sends[i].buttons[2].data,
                                       NoGen, now) :
           r.sends[1].text = "ThumbnailMenu"

\* C16: a regenerate callback for a chat whose session holds results and no
\* content does not call the text-generation provider and creates no
\* content.
C16_RegenerateNeedsContent ==
  (last.op = "callback" /\ last.data = REGENERATE
   /\ last.had = <<"session">>)
    => /\ ~Called("generate")
       /\ "content" \notin DOMAIN user_sessions[last.chat]

\* C17: a /search that does not deliver the result message leaves the
\* session store as it was before the command.
C17_FailureNoticeKeepsStore ==
  [][(last'.op = "search"
      /\ ~\E i \in 1..Len(last'.sends) :
            last'.sends[i].text = "Results" /\ last'.sends[i].ok)
       => user_sessions' = user_sessions]_vars

\* C19: on every path of a callback, at most one answer_callback_query
\* reaches the user.
C19_OneAnswer ==
  last.op = "callback"
    => Cardinality({i \in 1..Len(last.sends) :
                      /\ last.sends[i].api = "answer_callback_query"
                      /\ last.sends[i].ok}) <= 1

\* C20: a /search whose text has no query, or an empty or whitespace-only
\* one, issues the usage notice and does not call the search provider.
C20_EmptyQueryRejected ==
  (last.op = "search" /\ last.data \in {<<>>, <<"/search">>})
    => /\ ~Called("search")
       /\ Issued("Usage")

\* C18: when a platform or regenerate callback read the session of its
\* chat, waited on the text-generation provider and a search replaced the
\* session meanwhile, the callback does not change the session store; and a
\* generating callback that changes the session of its chat read the
\* results and the query that session holds.
C18_StaleGenerationNotStored ==
  [][(last'.op = "callback" /\ "generate" \in Elems(last'.calls))
       => /\ last'.stale => user_sessions' = user_sessions
          /\ user_sessions' # user_sessions
               => /\ last'.read = user_sessions[last'.chat].results
                  /\ user_sessions'[last'.chat].results = last'.read
                  /\ ContextOf(last'.prompt) =
                       SubSeq(BuildContext(user_sessions'[last'.chat].results),
                              1, Len(ContextOf(last'.prompt)))]_vars

C18_Witness ==
  /\ Generated
  /\ last.stale
  /\ last.gen.text = <<"x">>
  /\ Delivered("GeneratedContent")
  /\ last.read # user_sessions[last.chat].results
  /\ "content" \notin DOMAIN user_sessions[last.chat]
====
